---- MODULE Spec2Model ----
(***************************************************************************)
(* Model of kernel/src/analysis/tree_sitter.rs: the node mapper            *)
(* (map_node / map_node_internal), the match extractor (get_query_nodes)   *)
(* and the query compiler (get_query).                                     *)
(*                                                                         *)
(* The parser and the query engine are external: the model draws a         *)
(* concrete syntax tree (CST) from a bounded family of well-formed parses  *)
(* and lets the engine deliver any matches over that tree.  The tree       *)
(* cursor is modelled as the stack of nodes from the node the cursor was   *)
(* created on down to the current node.                                    *)
(*                                                                         *)
(* Coordinates: the parser's rows and columns are 32-bit unsigned values   *)
(* widened to usize (64 bit on the supported targets), so row + 1 never    *)
(* wraps and may be 2^32.  Such numbers are kept as two 16-bit halves,     *)
(* [hi, lo], standing for hi * 2^16 + lo.                                  *)
(***************************************************************************)
EXTENDS Integers, Sequences, FiniteSets, TLC

\* ---------------------------------------------------------------- bounds
MaxNodes == 3
MaxMatches == 2
MaxCaptures == 2

\* ------------------------------------------------------- Option<T> values
None == <<>>
Some(x) == <<x>>
IsSome(o) == Len(o) = 1
Unwrap(o) == o[1]

\* --------------------------------------------------- wide (usize) numbers
Half == 2^16
W(h, l) == [hi |-> h, lo |-> l]
WNat(k) == W(k \div Half, k % Half)
WAdd(w, k) == W(w.hi + ((w.lo + k) \div Half), (w.lo + k) % Half)
WLe(a, b) == a.hi < b.hi \/ (a.hi = b.hi /\ a.lo <= b.lo)
WLt(a, b) == WLe(a, b) /\ a # b
\* variant: a truncating cast (as u32) instead of try_from
U32TryFromMut(w) == Some(W(w.hi % Half, w.lo))
\* u32::try_from(x): Ok exactly when x <= u32::MAX, i.e. the high half fits 16 bits
U32TryFrom(w) == IF w.hi < Half THEN Some(w) ELSE None
\* the largest row / column the parser can report (u32::MAX)
U32Max == W(Half - 1, Half - 1)

\* ------------------------------------------------------------------- CST
\* Nodes are numbered 1..n in pre-order; parent[1] = 0.
Ancestors(parent, i) ==
    LET RECURSIVE Up(_)
        Up(j) == IF j = 0 THEN {} ELSE {j} \cup Up(parent[j])
    IN Up(parent[i])

PreOrderParents(n) ==
    { p \in { q \in [1..n -> 0..(n - 1)] : \A i \in 1..n : q[i] < i } :
        \A i \in 2..n : p[i] \in {i - 1} \cup Ancestors(p, i - 1) }

\* How a leaf token lies in the text: zero width (a MISSING or empty node),
\* one character, or one character and the line break after it.
Tokens == {"empty", "tok", "line"}

Point(r, c) == [row |-> r, column |-> c]

\* Where the first token of the parse starts: the beginning of the text, or
\* close to the largest row / column the parser can count.
NearMax == W(Half - 1, Half - 2)
Origins == { Point(WNat(0), WNat(0)), Point(NearMax, NearMax) }

\* The parse of a text: the tree, each node's grammar attributes and its
\* range (start inclusive, end exclusive, columns counted as the parser
\* counts them), and the extent of the text: the length of every line from
\* the first token on, line breaks excluded, and the last row.
MakeTree(n, parent, named, field, tok, origin) ==
    LET IsLeaf(i) == \A j \in 1..n : parent[j] # i
        Width(i) == IF tok[i] = "empty" THEN 0 ELSE 1
        RECURSIVE After(_)
        After(k) ==
            IF k = 0 THEN origin
            ELSE LET p == After(k - 1)
                 IN  IF ~IsLeaf(k) THEN p
                     ELSE IF tok[k] = "line"
                          THEN Point(WAdd(p.row, 1), WNat(0))
                          ELSE Point(p.row, WAdd(p.column, Width(k)))
        Last(i) == CHOOSE j \in i..n :
                      /\ i \in Ancestors(parent, j) \cup {j}
                      /\ \A m \in (j + 1)..n : i \notin Ancestors(parent, m)
        Leaves == { i \in 1..n : IsLeaf(i) }
        Rows == { After(k).row : k \in 0..n }
        LenOf(r) ==
            LET ends == { WAdd(After(k - 1).column, Width(k)) :
                            k \in { l \in Leaves : After(l - 1).row = r } }
                        \cup (IF r = origin.row THEN {origin.column} ELSE {WNat(0)})
            IN  CHOOSE c \in ends : \A d \in ends : WLe(d, c)
    IN  [ n |-> n,
          parent |-> parent,
          named |-> named,
          kind |-> [i \in 1..n |-> IF ~named[i] THEN "(" ELSE
                                   IF IsLeaf(i) THEN "identifier" ELSE "argument_list"],
          field |-> field,
          start |-> [i \in 1..n |-> After(i - 1)],
          end |-> [i \in 1..n |-> After(Last(i))],
          line_len |-> [r \in Rows |-> LenOf(r)],
          last_row |-> After(n).row ]

FieldNames == {None, Some("name")}

\* every row and column of the parse is a 32-bit value
FitsParser(t) ==
    /\ \A i \in 1..t.n : WLe(t.end[i].row, U32Max) /\ WLe(t.end[i].column, U32Max)
    /\ \A r \in DOMAIN t.line_len : WLe(t.line_len[r], U32Max)

Trees(origins, tokens, fields) ==
    UNION { { t \in { MakeTree(n, parent, named, field, tok, origin) :
                        named \in [1..n -> BOOLEAN],
                        field \in { f \in [1..n -> fields] : f[1] = None },
                        tok \in { k \in [1..n -> tokens] :
                                    \A i \in 1..n : (\E j \in 1..n : parent[j] = i) => k[i] = "tok" },
                        origin \in origins } : FitsParser(t) }
            : <<n, parent>> \in { <<m, p>> \in (1..MaxNodes) \X UNION { PreOrderParents(m) : m \in 1..MaxNodes } :
                                    DOMAIN p = 1..m } }

\* ------------------------------------------------------------ tree cursor
\* node.walk(): a cursor whose root is the node it was created on
Walk(n) == <<n>>
CursorNode(c) == c[Len(c)]
ChildSeq(t, i) == SelectSeq([k \in 1..t.n |-> k], LAMBDA j : t.parent[j] = i)
\* cursor.goto_first_child(): Some(cursor moved) when it returns true
GotoFirstChild(t, c) ==
    LET kids == ChildSeq(t, CursorNode(c))
    IN  IF kids # <<>> THEN Some(Append(c, kids[1])) ELSE None
\* cursor.goto_next_sibling(): never moves off the cursor's root
GotoNextSibling(t, c) ==
    IF Len(c) <= 1 THEN None
    ELSE LET sibs == ChildSeq(t, c[Len(c) - 1])
             k == CHOOSE j \in 1..Len(sibs) : sibs[j] = CursorNode(c)
         IN  IF k < Len(sibs) THEN Some([c EXCEPT ![Len(c)] = sibs[k + 1]]) ELSE None
\* variant: the goto_parent() after the sibling loop left out
GotoParentMut(c) == c
\* cursor.goto_parent(): stays put on the cursor's root
GotoParent(c) == IF Len(c) > 1 THEN SubSeq(c, 1, Len(c) - 1) ELSE c
\* cursor.field_name(): the field the parent entry of the cursor assigns to
\* the current node; the cursor's root has no parent entry
CursorFieldName(t, c) == IF Len(c) > 1 THEN t.field[CursorNode(c)] ELSE None

\* ------------------------------------------------------------ node mapper
\* variant: the parser's 0-based row and column stored as they are
ToPositionMut(pt) ==
    LET l == U32TryFrom(pt.row)
        c == U32TryFrom(pt.column)
    IN  IF IsSome(l) /\ IsSome(c) THEN Some([line |-> Unwrap(l), col |-> Unwrap(c)]) ELSE None
\* Position { line: u32::try_from(row + 1), col: u32::try_from(column + 1) }
ToPosition(pt) ==
    LET l == U32TryFrom(WAdd(pt.row, 1))
        c == U32TryFrom(WAdd(pt.column, 1))
    IN  IF IsSome(l) /\ IsSome(c) THEN Some([line |-> Unwrap(l), col |-> Unwrap(c)]) ELSE None

\* variant: the named-ness filter left out
IsNamedMut(t, i) == TRUE
\* cursor.node().is_named()
IsNamed(t, i) == t.named[i]

\* the TreeSitterNode built at the cursor; None stands for the panic of unwrap()
BuildNode(t, c, children) ==
    LET i == CursorNode(c)
        s == ToPosition(t.start[i])
        e == ToPosition(t.end[i])
    IN  IF IsSome(s) /\ IsSome(e)
        THEN Some([ ast_type |-> t.kind[i],
                    start |-> Unwrap(s),
                    end |-> Unwrap(e),
                    field_name |-> CursorFieldName(t, c),
                    children |-> children ])
        ELSE None

VARIABLES
    tree,      \* the parse get_tree returned
    op,        \* the public operation in progress: "none", "map_node", ...
    pc,        \* "idle", "enter" (map_node_internal just called),
               \* "returned" (map_node_internal just returned), "panicked"
    cursor,    \* ts_cursor
    frames,    \* the activations of map_node_internal, outermost first
    ret,       \* the value the last map_node_internal returned
    visited,   \* the nodes map_node_internal was entered on, this call
    calls,     \* the last completed map_node call: <<[node, result]>>
    compiled,  \* what the last get_query call was given and returned
    query,     \* the pattern get_query_nodes runs
    raw,       \* the raw matches the query engine has delivered, this call
    cap_i,     \* the place in the capture loop of the current match
    captures,
    captures_list,
    match_nodes,
    returned   \* Some(what get_query_nodes returned), None before it returns

qvars == <<compiled, query, raw, cap_i, captures, captures_list, match_nodes, returned>>
vars == <<tree, op, pc, cursor, frames, ret, visited, calls, qvars>>

Frame(c) == [children |-> <<>>, at_entry |-> c]
Top == frames[Len(frames)]
Front(q) == SubSeq(q, 1, Len(q) - 1)

\* ---------------------------------------------------------- query compiler
Languages == {"JavaScript", "Python", "Rust", "TypeScript"}

\* fn get_tree_sitter_language(language) -> Option<tree_sitter::Language>
GetTreeSitterLanguage(language) ==
    CASE language = "JavaScript" -> Some("tree_sitter_javascript")
      [] language = "Python" -> Some("tree_sitter_python")
      [] language = "Rust" -> Some("tree_sitter_rust")
      [] language = "TypeScript" -> Some("tree_sitter_tsx")

Ok(pattern) == [ok |-> TRUE, pattern |-> pattern, error |-> ""]
Err(e) == [ok |-> FALSE, pattern |-> [capture_names |-> <<>>], error |-> e]

\* The query texts callers pass, and what the query engine makes of each:
\* a pattern with its ordered capture names, or a diagnostic.
QueryTexts ==
    { "(identifier) @classname",
      "(class_definition name: (identifier) @classname superclasses: (argument_list (identifier)+ @superclasses))",
      "(identifier",
      "(no_such_kind) @x" }
\* tree_sitter::Query::new(language, source)
QueryNew(grammar, source) ==
    CASE source = "(identifier) @classname" ->
            Ok([capture_names |-> <<"classname">>])
      [] source = "(class_definition name: (identifier) @classname superclasses: (argument_list (identifier)+ @superclasses))" ->
            Ok([capture_names |-> <<"classname", "superclasses">>])
      [] source = "(identifier" -> Err("Query error: syntax")
      [] OTHER -> Err("Query error: node type")

\* variant: an empty pattern returned in place of the engine's rejection
GetQueryMut(query_code, language) ==
    LET lang == GetTreeSitterLanguage(language)
    IN  IF ~IsSome(lang)
        THEN [result |-> Err("no language defined"), engine_calls |-> <<>>]
        ELSE LET r == QueryNew(Unwrap(lang), query_code)
             IN  [result |-> IF r.ok THEN r ELSE Ok([capture_names |-> <<>>]),
                  engine_calls |-> << <<Unwrap(lang), query_code>> >>]
\* pub fn get_query(query_code, language) -> Result<Query>, with the calls it
\* made to the query engine
GetQuery(query_code, language) ==
    LET lang == GetTreeSitterLanguage(language)
    IN  IF ~IsSome(lang)
        THEN [result |-> Err("no language defined"), engine_calls |-> <<>>]
        ELSE [result |-> QueryNew(Unwrap(lang), query_code),
              engine_calls |-> << <<Unwrap(lang), query_code>> >>]

\* --------------------------------------------------------- match extractor
EmptyMap == [k \in {} |-> <<>>]
MapInsert(m, k, v) == [x \in DOMAIN m \cup {k} |-> IF x = k THEN v ELSE m[x]]

\* query.capture_names().get(index)
CaptureName(q, index) ==
    IF index < Len(q.capture_names) THEN Some(q.capture_names[index + 1]) ELSE None

\* variant: first-wins (the entry is kept when the name is already bound)
CapturesInsertMut(m, name, node) == IF name \in DOMAIN m THEN m ELSE MapInsert(m, name, node)
\* captures.insert(capture_name, node)
CapturesInsert(m, name, node) == MapInsert(m, name, node)

\* variant: the node put in front of the list
CapturesListPushMut(m, name, node) ==
    LET have == IF name \in DOMAIN m THEN m ELSE MapInsert(m, name, <<>>)
    IN  [have EXCEPT ![name] = <<node>> \o @]
\* if !captures_list.contains_key(name) { insert(name, vec![]) }; get_mut(name).push(node)
CapturesListPush(m, name, node) ==
    LET have == IF name \in DOMAIN m THEN m ELSE MapInsert(m, name, <<>>)
    IN  [have EXCEPT ![name] = Append(@, node)]

\* variant: a match without captures is not recorded
PushMatchMut(nodes, caps, caps_list, filename, code, variables) ==
    IF DOMAIN caps = {} THEN nodes
    ELSE Append(nodes, [ captures |-> caps,
                         captures_list |-> caps_list,
                         context |-> [ code |-> Some(code),
                                       filename |-> filename,
                                       variables |-> variables ] ])
\* match_nodes.push(MatchNode { captures, captures_list, context })
PushMatch(nodes, caps, caps_list, filename, code, variables) ==
    Append(nodes, [ captures |-> caps,
                    captures_list |-> caps_list,
                    context |-> [ code |-> Some(code),
                                  filename |-> filename,
                                  variables |-> variables ] ])

\* the arguments get_query_nodes passes through to every MatchNode
Filename == "myfile.py"
Code == "code"
Variables == EmptyMap

\* what the query engine can deliver as the captures of one match: capture
\* indices of the pattern on nodes of the tree, at most `room` of them
RECURSIVE CaptureSeqs(_, _)
CaptureSeqs(q, room) ==
    IF room = 0 THEN { <<>> }
    ELSE LET shorter == CaptureSeqs(q, room - 1)
         IN  shorter \cup
             { Append(cs, [index |-> i, node |-> n]) :
                 cs \in { c \in shorter : Len(c) = room - 1 },
                 i \in 0..(Len(q.capture_names) - 1),
                 n \in 1..tree.n }

NotCompiled == [query_code |-> "", language |-> "", result |-> Err(""), engine_calls |-> <<>>]
NoQuery == [capture_names |-> <<>>]

MapInit ==
    /\ op = "none"
    /\ pc = "idle"
    /\ cursor = <<>>
    /\ frames = <<>>
    /\ ret = None
    /\ visited = <<>>
    /\ calls = <<>>
    /\ compiled = NotCompiled
    /\ query = NoQuery
    /\ raw = <<>>
    /\ cap_i = 0
    /\ captures = EmptyMap
    /\ captures_list = EmptyMap
    /\ match_nodes = <<>>
    /\ returned = None

Init ==
    /\ tree \in Trees(Origins, Tokens, FieldNames)
    /\ MapInit

\* a text that starts at the beginning, one-character tokens on one line
PlainInit ==
    /\ tree \in Trees({Point(WNat(0), WNat(0))}, {"tok"}, FieldNames)
    /\ MapInit

\* let mut ts_cursor = node.walk(); map_node_internal(&mut ts_cursor)
StartMapNode(n) ==
    /\ cursor' = Walk(n)
    /\ frames' = <<Frame(Walk(n))>>
    /\ pc' = "enter"
    /\ ret' = None
    /\ visited' = <<>>

\* pub fn map_node(node), called on any node of the tree
CallMapNode(n) ==
    /\ op = "none" /\ pc = "idle"
    /\ op' = "map_node"
    /\ StartMapNode(n)
    /\ UNCHANGED <<tree, calls, qvars>>

\* finish the activation on top: build the node at cursor c, return it or panic
Finish(c, children) ==
    LET built == BuildNode(tree, c, children)
    IN  /\ cursor' = c
        /\ IF IsSome(built)
           THEN /\ frames' = Front(frames)
                /\ ret' = built
                /\ pc' = "returned"
           ELSE /\ pc' = "panicked"
                /\ UNCHANGED <<frames, ret>>

\* if !cursor.node().is_named() { return None; }
MapEnterAnonymous ==
    /\ pc = "enter"
    /\ ~IsNamed(tree, CursorNode(cursor))
    /\ visited' = Append(visited, CursorNode(cursor))
    /\ frames' = Front(frames)
    /\ ret' = None
    /\ pc' = "returned"
    /\ UNCHANGED <<tree, op, cursor, calls, qvars>>

\* named node, goto_first_child() is true: map the first child
MapEnterDescend ==
    /\ pc = "enter"
    /\ IsNamed(tree, CursorNode(cursor))
    /\ IsSome(GotoFirstChild(tree, cursor))
    /\ visited' = Append(visited, CursorNode(cursor))
    /\ cursor' = Unwrap(GotoFirstChild(tree, cursor))
    /\ frames' = Append(frames, Frame(cursor'))
    /\ UNCHANGED <<tree, op, pc, ret, calls, qvars>>

\* named node, goto_first_child() is false: build the node with no children
MapEnterLeaf ==
    /\ pc = "enter"
    /\ IsNamed(tree, CursorNode(cursor))
    /\ ~IsSome(GotoFirstChild(tree, cursor))
    /\ visited' = Append(visited, CursorNode(cursor))
    /\ Finish(cursor, <<>>)
    /\ UNCHANGED <<tree, op, calls, qvars>>

\* if let Some(child) = maybe_child { children.push(child); }
Pushed(children, maybe_child) ==
    IF IsSome(maybe_child) THEN Append(children, Unwrap(maybe_child)) ELSE children

\* a child returned and goto_next_sibling() is true: map the next sibling
MapLoopNextSibling ==
    /\ pc = "returned" /\ frames # <<>>
    /\ IsSome(GotoNextSibling(tree, cursor))
    /\ cursor' = Unwrap(GotoNextSibling(tree, cursor))
    /\ frames' = Append([frames EXCEPT ![Len(frames)].children = Pushed(@, ret)],
                        Frame(cursor'))
    /\ pc' = "enter"
    /\ UNCHANGED <<tree, op, ret, visited, calls, qvars>>

\* a child returned and goto_next_sibling() is false: goto_parent(), build
MapLoopFinish ==
    /\ pc = "returned" /\ frames # <<>>
    /\ ~IsSome(GotoNextSibling(tree, cursor))
    /\ Finish(GotoParent(cursor), Pushed(Top.children, ret))
    /\ UNCHANGED <<tree, op, visited, calls, qvars>>

\* map_node returns to its caller
MapNodeReturn ==
    /\ op = "map_node" /\ pc = "returned" /\ frames = <<>>
    /\ calls' = <<[node |-> cursor[1], result |-> ret]>>
    /\ op' = "none"
    /\ pc' = "idle"
    /\ cursor' = <<>>
    /\ UNCHANGED <<tree, frames, ret, visited, qvars>>

\* ------------------------------------------------- get_query, as a call
\* (the variables hold the outcome of the latest call only: what an earlier
\* get_query_nodes left is dropped)
CallGetQuery(query_code, language) ==
    /\ op = "none" /\ pc = "idle"
    /\ compiled' = [ query_code |-> query_code,
                     language |-> language,
                     result |-> GetQuery(query_code, language).result,
                     engine_calls |-> GetQuery(query_code, language).engine_calls ]
    /\ query' = NoQuery
    /\ raw' = <<>>
    /\ cap_i' = 0
    /\ captures' = EmptyMap
    /\ captures_list' = EmptyMap
    /\ match_nodes' = <<>>
    /\ returned' = None
    /\ UNCHANGED <<tree, op, pc, cursor, frames, ret, visited, calls>>

\* --------------------------------------------------------- get_query_nodes
\* the captures delivered in this call so far
Delivered == LET RECURSIVE Sum(_)
                 Sum(k) == IF k = 0 THEN 0 ELSE Len(raw[k]) + Sum(k - 1)
             IN  Sum(Len(raw))

\* pub fn get_query_nodes(tree, query, filename, code, variables), given the
\* pattern the last get_query returned
CallGetQueryNodes ==
    /\ op = "none" /\ pc = "idle"
    /\ compiled.result.ok
    /\ op' = "get_query_nodes"
    /\ pc' = "matching"
    /\ query' = compiled.result.pattern
    /\ compiled' = NotCompiled
    /\ raw' = <<>>
    /\ cap_i' = 0
    /\ captures' = EmptyMap
    /\ captures_list' = EmptyMap
    /\ match_nodes' = <<>>
    /\ returned' = None
    /\ UNCHANGED <<tree, cursor, frames, ret, visited, calls>>

\* for query_match in query_result: the engine delivers the next match
QueryNextMatch(caps) ==
    /\ op = "get_query_nodes" /\ pc = "matching"
    /\ Len(raw) < MaxMatches
    /\ raw' = Append(raw, caps)
    /\ captures' = EmptyMap
    /\ captures_list' = EmptyMap
    /\ cap_i' = 1
    /\ pc' = "captures"
    /\ UNCHANGED <<tree, op, cursor, frames, ret, visited, calls,
                   compiled, query, match_nodes, returned>>

\* for capture in query_match.captures.iter(): map_node(capture.node)
CaptureMapNode ==
    /\ op = "get_query_nodes" /\ pc = "captures"
    /\ cap_i <= Len(raw[Len(raw)])
    /\ StartMapNode(raw[Len(raw)][cap_i].node)
    /\ UNCHANGED <<tree, op, calls, qvars>>

\* if let (Some(capture_name), Some(node)) = (capture_name_opt, node_opt)
CaptureInsert ==
    /\ op = "get_query_nodes" /\ pc = "returned" /\ frames = <<>>
    /\ LET capture_name_opt == CaptureName(query, raw[Len(raw)][cap_i].index)
           node_opt == ret
       IN  IF IsSome(capture_name_opt) /\ IsSome(node_opt)
           THEN /\ captures' = CapturesInsert(captures, Unwrap(capture_name_opt), Unwrap(node_opt))
                /\ captures_list' = CapturesListPush(captures_list, Unwrap(capture_name_opt),
                                                     Unwrap(node_opt))
           ELSE UNCHANGED <<captures, captures_list>>
    /\ cap_i' = cap_i + 1
    /\ pc' = "captures"
    /\ cursor' = <<>>
    /\ UNCHANGED <<tree, op, frames, ret, visited, calls,
                   compiled, query, raw, match_nodes, returned>>

\* the capture loop is over: match_nodes.push(MatchNode { .. })
MatchPush ==
    /\ op = "get_query_nodes" /\ pc = "captures"
    /\ cap_i > Len(raw[Len(raw)])
    /\ match_nodes' = PushMatch(match_nodes, captures, captures_list, Filename, Code, Variables)
    /\ pc' = "matching"
    /\ UNCHANGED <<tree, op, cursor, frames, ret, visited, calls,
                   compiled, query, raw, cap_i, captures, captures_list, returned>>

\* the engine has no more matches: get_query_nodes returns match_nodes
QueryEnd ==
    /\ op = "get_query_nodes" /\ pc = "matching"
    /\ returned' = Some(match_nodes)
    /\ op' = "none"
    /\ pc' = "idle"
    /\ UNCHANGED <<tree, cursor, frames, ret, visited, calls,
                   compiled, query, raw, cap_i, captures, captures_list, match_nodes>>

MapStep ==
    \/ MapEnterAnonymous
    \/ MapEnterDescend
    \/ MapEnterLeaf
    \/ MapLoopNextSibling
    \/ MapLoopFinish

Next ==
    \/ \E n \in 1..tree.n : CallMapNode(n)
    \/ MapStep
    \/ MapNodeReturn

Spec == Init /\ [][Next]_vars

QueryNext ==
    \/ \E q \in QueryTexts : \E l \in Languages : CallGetQuery(q, l)
    \/ CallGetQueryNodes
    \/ \E caps \in CaptureSeqs(query, MaxCaptures - Delivered) : QueryNextMatch(caps)
    \/ CaptureMapNode
    \/ MapStep
    \/ CaptureInsert
    \/ MatchPush
    \/ QueryEnd

QuerySpec == PlainInit /\ [][QueryNext]_vars

\* map_node on plain texts; the call runs to completion: it is synchronous
\* and nothing suspends it
CursorSpec == PlainInit /\ [][Next]_vars /\ WF_vars(MapStep)

\* ============================================================ properties
NamedChildSeq(t, i) == SelectSeq(ChildSeq(t, i), LAMBDA j : t.named[j])
ExactPosition(pt) == [line |-> WAdd(pt.row, 1), col |-> WAdd(pt.column, 1)]
PosLe(a, b) == WLt(a.line, b.line) \/ (a.line = b.line /\ WLe(a.col, b.col))

\* x is what the CST node i maps to: its kind and range, and as children
\* what the named direct children of i map to, in sibling order
RECURSIVE Mirrors(_, _)
Mirrors(x, i) ==
    /\ tree.named[i]
    /\ x.ast_type = tree.kind[i]
    /\ x.start = ExactPosition(tree.start[i])
    /\ x.end = ExactPosition(tree.end[i])
    /\ Len(x.children) = Len(NamedChildSeq(tree, i))
    /\ \A k \in 1..Len(x.children) : Mirrors(x.children[k], NamedChildSeq(tree, i)[k])

\* every node of a mapped tree
RECURSIVE NodesOf(_)
NodesOf(x) == {x} \cup UNION { NodesOf(x.children[k]) : k \in 1..Len(x.children) }
NodesOfOption(o) == IF IsSome(o) THEN NodesOf(Unwrap(o)) ELSE {}

CallResults == { calls[k] : k \in 1..Len(calls) }

\* C2: a node map_node produces, the node it was called on included, carries
\* the field name its parent assigns to it, and none only when the parent
\* assigns none.
C2_FieldNameOfCalledNode ==
    \A c \in CallResults :
        IsSome(c.result) => Unwrap(c.result).field_name = tree.field[c.node]

\* C3: map_node called on a named child C of a named node N returns the
\* entry for C in map_node(N).children (here: map_node(C) has returned, and
\* now map_node(N) is about to return).
C3_Idempotence ==
    (/\ op = "map_node" /\ pc = "returned" /\ frames = <<>>
     /\ calls # <<>> /\ IsSome(calls[1].result) /\ IsSome(ret)
     /\ tree.parent[calls[1].node] = cursor[1])
    => LET sibs == NamedChildSeq(tree, cursor[1])
           k == CHOOSE j \in 1..Len(sibs) : sibs[j] = calls[1].node
       IN  Unwrap(calls[1].result) = Unwrap(ret).children[k]

\* C4: map_node of a non-named node is None; of a named node it is the node
\* with, as children at every depth, exactly the mappings of the named direct
\* children in sibling order; no anonymous kind appears in a mapped tree.
C4_FilteringLaw ==
    \A c \in CallResults :
        IF tree.named[c.node]
        THEN /\ IsSome(c.result)
             /\ Mirrors(Unwrap(c.result), c.node)
             /\ \A x \in NodesOf(Unwrap(c.result)) : x.ast_type # "("
        ELSE c.result = None

\* a named node below an anonymous child was dropped with it
C4_Witness ==
    \E c \in CallResults :
        /\ IsSome(c.result)
        /\ Unwrap(c.result).children = <<>>
        /\ \E a \in 1..tree.n : \E d \in 1..tree.n :
              /\ tree.parent[a] = c.node /\ ~tree.named[a]
              /\ tree.parent[d] = a /\ tree.named[d]

\* a position lies strictly within the text: on one of its lines, at one of
\* the columns of that line
StrictlyWithin(p) ==
    \E r \in DOMAIN tree.line_len :
        /\ p.line = WAdd(r, 1)
        /\ WLe(WNat(1), p.col) /\ WLe(p.col, tree.line_len[r])
\* a position lies on one of the lines of the text, at one of its columns or
\* right after the last one
WithinOrAtEnd(p) ==
    \E r \in DOMAIN tree.line_len :
        /\ p.line = WAdd(r, 1)
        /\ WLe(WNat(1), p.col) /\ WLe(p.col, WAdd(tree.line_len[r], 1))

\* C5 as stated: every mapped node's start and end are the parser's row and
\* column plus 1, start <= end, and both lie strictly within the text.
C5_PositionLawStrict ==
    \A c \in CallResults :
        IsSome(c.result) =>
            /\ Mirrors(Unwrap(c.result), c.node)
            /\ \A x \in NodesOf(Unwrap(c.result)) :
                  /\ PosLe(x.start, x.end)
                  /\ StrictlyWithin(x.start) /\ StrictlyWithin(x.end)

\* C5 (amended): every mapped node's start and end are the parser's row and
\* column plus 1, start <= end, and both lie on a line of the text at a
\* column that is at most one past the end of that line.
C5_PositionLaw ==
    \A c \in CallResults :
        IsSome(c.result) =>
            /\ Mirrors(Unwrap(c.result), c.node)
            /\ \A x \in NodesOf(Unwrap(c.result)) :
                  /\ PosLe(x.start, x.end)
                  /\ WithinOrAtEnd(x.start) /\ WithinOrAtEnd(x.end)

\* a mapped node that spans lines and ends right after the last column
C5_Witness ==
    \E c \in CallResults :
        /\ IsSome(c.result)
        /\ \E x \in NodesOf(Unwrap(c.result)) :
              /\ WLt(x.start.line, x.end.line)
              /\ ~StrictlyWithin(x.end)
              /\ WithinOrAtEnd(x.end)

\* row + 1 or column + 1 of a point does not fit 32 bits
OverflowsPoint(pt) == ~WLe(WAdd(pt.row, 1), U32Max) \/ ~WLe(WAdd(pt.column, 1), U32Max)
Overflows(i) == OverflowsPoint(tree.start[i]) \/ OverflowsPoint(tree.end[i])

Produced ==
    NodesOfOption(ret)
    \cup UNION { NodesOfOption(c.result) : c \in CallResults }
    \cup UNION { UNION { NodesOf(frames[f].children[k]) : k \in 1..Len(frames[f].children) }
                 : f \in 1..Len(frames) }

\* C6: a node whose row + 1 or column + 1 does not fit 32 bits makes the
\* mapping panic when it is built; every line and column stored in a
\* produced node is the parser's value plus 1, never a wrapped one.
C6_NoTruncation ==
    /\ \A x \in Produced :
          \E i \in 1..tree.n :
              /\ ~Overflows(i)
              /\ x.start = ExactPosition(tree.start[i])
              /\ x.end = ExactPosition(tree.end[i])
    /\ (pc = "returned" /\ IsSome(ret)) => ~Overflows(CursorNode(cursor))
    /\ pc = "panicked" => Overflows(CursorNode(cursor))

\* the mapping was aborted on a node whose coordinates overflow, below a
\* sibling that had been mapped
C6_Witness ==
    /\ pc = "panicked"
    /\ Overflows(CursorNode(cursor))
    /\ \E f \in 1..Len(frames) : frames[f].children # <<>>

IsPath(c) == \A k \in 1..(Len(c) - 1) : tree.parent[c[k + 1]] = c[k]
Count(q, v) == Cardinality({ k \in 1..Len(q) : q[k] = v })

\* C10 (state part): the cursor stays a path below the node map_node was
\* called on, no node is entered twice, and when the call has returned every
\* direct child of every named node entered was entered exactly once.
C10_CursorInv ==
    /\ cursor # <<>> =>
          /\ IsPath(cursor)
          /\ visited # <<>> => cursor[1] = visited[1]
    /\ \A v \in 1..tree.n : Count(visited, v) <= 1
    /\ (pc = "returned" /\ frames = <<>>) =>
          /\ cursor = Walk(visited[1])
          /\ \A v \in 1..tree.n : \A d \in 1..tree.n :
                (Count(visited, v) = 1 /\ tree.named[v] /\ tree.parent[d] = v)
                => Count(visited, d) = 1

\* C10: every map_node_internal returns with the cursor on the node it was
\* entered on, the invariant above holds, and a call of map_node ends (by
\* returning or by panicking).
C10_CursorRestored ==
    /\ [][Len(frames') < Len(frames) => cursor' = Top.at_entry]_vars
    /\ []C10_CursorInv
    /\ (pc = "enter") ~> (pc = "panicked" \/ (pc = "returned" /\ frames = <<>>))

\* a nested map_node_internal on a named node with children has returned
C10_Witness ==
    /\ pc = "returned"
    /\ Len(frames) = 1
    /\ IsSome(ret)
    /\ Unwrap(ret).children # <<>>

\* ------------------------------------------------ match extractor, compiler
MatchNodes == { match_nodes[k] : k \in 1..Len(match_nodes) } \cup
              (IF IsSome(returned)
               THEN { Unwrap(returned)[k] : k \in 1..Len(Unwrap(returned)) } ELSE {})
LastOf(q) == q[Len(q)]

\* C1: in every MatchNode, captures and captures_list have the same keys,
\* no list is empty, and captures[key] is the last element of
\* captures_list[key].
C1_CaptureAggregation ==
    \A m \in MatchNodes :
        /\ DOMAIN m.captures = DOMAIN m.captures_list
        /\ \A key \in DOMAIN m.captures_list :
              /\ m.captures_list[key] # <<>>
              /\ m.captures[key] = LastOf(m.captures_list[key])

\* a name bound twice in one match, to nodes that map differently
C1_Witness ==
    \E m \in MatchNodes : \E key \in DOMAIN m.captures_list :
        /\ Len(m.captures_list[key]) = 2
        /\ m.captures_list[key][1] # m.captures_list[key][2]
        /\ m.captures[key] = m.captures_list[key][2]

\* the captures of raw match k bound to `name` whose node is named, in the
\* order the engine reported them
BoundTo(k, name) ==
    SelectSeq(raw[k], LAMBDA c : /\ query.capture_names[c.index + 1] = name
                                 /\ tree.named[c.node])
NamesBound(k) == { name \in { query.capture_names[j] : j \in 1..Len(query.capture_names) } :
                     BoundTo(k, name) # <<>> }

\* C7: one MatchNode per raw match, in the engine's order: the k-th holds
\* the captures of the k-th raw match (empty maps when all were skipped);
\* what is returned is that sequence, empty when there was no match.
C7_OneMatchNodePerMatch ==
    /\ op = "get_query_nodes" =>
          Len(match_nodes) = (IF pc = "matching" THEN Len(raw) ELSE Len(raw) - 1)
    /\ IsSome(returned) =>
          /\ Unwrap(returned) = match_nodes
          /\ Len(match_nodes) = Len(raw)
    /\ \A k \in 1..Len(match_nodes) :
          /\ DOMAIN match_nodes[k].captures = NamesBound(k)
          /\ \A name \in NamesBound(k) :
                Mirrors(match_nodes[k].captures[name], LastOf(BoundTo(k, name)).node)

\* two matches were returned, the first with every capture skipped
C7_Witness ==
    /\ IsSome(returned)
    /\ Len(Unwrap(returned)) = 2
    /\ raw[1] # <<>>
    /\ DOMAIN Unwrap(returned)[1].captures = {}
    /\ DOMAIN Unwrap(returned)[2].captures # {}

\* C8: captures_list[name] of a match is, in the engine's order, what the
\* named nodes captured under that name map to; a capture of an anonymous
\* node adds nothing, and a name with no other capture stays absent.
C8_CapturesListInOrder ==
    \A k \in 1..Len(match_nodes) :
        /\ DOMAIN match_nodes[k].captures_list = NamesBound(k)
        /\ \A name \in NamesBound(k) :
              LET list == match_nodes[k].captures_list[name]
                  bound == BoundTo(k, name)
              IN  /\ Len(list) = Len(bound)
                  /\ \A j \in 1..Len(list) : Mirrors(list[j], bound[j].node)

\* a match with a skipped capture of an anonymous node before a kept one
C8_Witness ==
    \E k \in 1..Len(match_nodes) :
        /\ Len(raw[k]) = 2
        /\ ~tree.named[raw[k][1].node]
        /\ tree.named[raw[k][2].node]
        /\ \E name \in DOMAIN match_nodes[k].captures_list :
              Len(match_nodes[k].captures_list[name]) = 1

\* C9: get_query returns a pattern only when the query engine accepted the
\* text, and then the engine's pattern; it returns "no language defined"
\* without calling the engine when the grammar does not resolve; a
\* rejection is returned with the engine's diagnostic; the engine is called
\* at most once.
C9_GetQueryResult ==
    compiled # NotCompiled =>
        LET lang == GetTreeSitterLanguage(compiled.language)
            r == compiled.result
        IN  /\ Len(compiled.engine_calls) <= 1
            /\ ~IsSome(lang) =>
                  /\ r = Err("no language defined")
                  /\ compiled.engine_calls = <<>>
            /\ IsSome(lang) =>
                  LET verdict == QueryNew(Unwrap(lang), compiled.query_code)
                  IN  /\ compiled.engine_calls = << <<Unwrap(lang), compiled.query_code>> >>
                      /\ r.ok = verdict.ok
                      /\ r.ok => r.pattern = verdict.pattern
                      /\ ~r.ok => r.error = verdict.error

\* the engine rejected the text and its diagnostic came back
C9_Witness ==
    /\ compiled # NotCompiled
    /\ ~compiled.result.ok
    /\ compiled.result.error = "Query error: syntax"
    /\ Len(compiled.engine_calls) = 1
====
